---- MODULE Spec2Model ----
(***************************************************************************)
(* A model of the rule-based skill matching engine of FitFinder:           *)
(* backend/rules_engine.py (the five rules and RulesEngine.evaluate_match) *)
(* and backend/expert_system.py (the scoring facade).                      *)
(*                                                                         *)
(* Conventions of the model                                                *)
(*  - Skills are strings; lower(), strip(), "in" and slicing are computed  *)
(*    character by character on them.                                      *)
(*  - Scores are Python floats with one decimal; the model keeps them in   *)
(*    tenths as integers (3.0 is 30), so sums and comparisons are exact.   *)
(*  - A Python list whose order is the iteration order of a set, which the *)
(*    language leaves unspecified, is kept up to order, as a bag.  The     *)
(*    "matches" lists and matched_skills are such lists.                   *)
(*  - The source writes the similarity sign and the emoji of the           *)
(*    recommendation lines in non-ASCII characters; the model writes the   *)
(*    sign as "~=" and leaves the emoji out.                               *)
(***************************************************************************)
EXTENDS Bags, FiniteSets, Integers, Sequences, TLC

(***************************************************************************)
(* Strings: str.lower, str.strip, "x in s", " ".join and ", ".join         *)
(***************************************************************************)

\* str.lower on one character (ASCII letters)
LowerChar(c) ==
    CASE c = "A" -> "a" [] c = "B" -> "b" [] c = "C" -> "c" [] c = "D" -> "d"
      [] c = "E" -> "e" [] c = "F" -> "f" [] c = "G" -> "g" [] c = "H" -> "h"
      [] c = "I" -> "i" [] c = "J" -> "j" [] c = "K" -> "k" [] c = "L" -> "l"
      [] c = "M" -> "m" [] c = "N" -> "n" [] c = "O" -> "o" [] c = "P" -> "p"
      [] c = "Q" -> "q" [] c = "R" -> "r" [] c = "S" -> "s" [] c = "T" -> "t"
      [] c = "U" -> "u" [] c = "V" -> "v" [] c = "W" -> "w" [] c = "X" -> "x"
      [] c = "Y" -> "y" [] c = "Z" -> "z" [] OTHER -> c

RECURSIVE Lower(_)
\* str.lower
Lower(s) ==
    IF s = "" THEN ""
    ELSE LowerChar(SubSeq(s, 1, 1)) \o Lower(SubSeq(s, 2, Len(s)))

\* the characters str.strip removes (ASCII whitespace)
IsSpace(c) == c \in {" ", "\t", "\n", "\r", "\f"}

RECURSIVE LStrip(_)
LStrip(s) ==
    IF s # "" /\ IsSpace(SubSeq(s, 1, 1)) THEN LStrip(SubSeq(s, 2, Len(s))) ELSE s

RECURSIVE RStrip(_)
RStrip(s) ==
    IF s # "" /\ IsSpace(SubSeq(s, Len(s), Len(s)))
    THEN RStrip(SubSeq(s, 1, Len(s) - 1)) ELSE s

\* str.strip
Strip(s) == RStrip(LStrip(s))

\* "sub in s" for strings
Contains(sub, s) ==
    \E i \in 1..(Len(s) - Len(sub) + 1) : SubSeq(s, i, i + Len(sub) - 1) = sub

\* any(k in s for k in keywords)
ContainsAny(keywords, s) == \E k \in keywords : Contains(k, s)

RECURSIVE Join(_, _)
\* sep.join(list)
Join(sep, list) ==
    IF list = <<>> THEN ""
    ELSE IF Len(list) = 1 THEN list[1]
    ELSE list[1] \o sep \o Join(sep, Tail(list))

(***************************************************************************)
(* The inputs the calls are made with                                      *)
(***************************************************************************)

\* the most skills the two lists of an exhaustively enumerated call hold together
MaxTotal == 3

\* the length of the long skill list
MaxLong == 12

\* the longest list over Skills a call holds beside the long list
MaxBeside == 2

\* the skills of the exhaustively enumerated lists: two spellings of one
\* technical skill, and a soft skill that holds a seniority keyword
Skills == {"Python", "python ", "leadership"}

\* the long list repeats these spellings of one skill
LongPool == <<"Python", "python ", "PYTHON", " python">>

\* every list over Skills of at most n entries
ListsUpTo(n) == UNION {[1..k -> Skills] : k \in 0..n}

\* every two lists over Skills of at most MaxTotal entries together
ShortPairs ==
    {p \in ListsUpTo(MaxTotal) \X ListsUpTo(MaxTotal) :
        Len(p[1]) + Len(p[2]) <= MaxTotal}

\* a list longer than the cuts at 10 and 15 entries
LongList == [k \in 1..MaxLong |-> LongPool[((k - 1) % Len(LongPool)) + 1]]

\* the long list against itself and against the lists of at most MaxBeside skills
LongPairs ==
    {<<LongList, LongList>>}
    \cup {<<list, LongList>> : list \in ListsUpTo(MaxBeside)}
    \cup {<<LongList, list>> : list \in ListsUpTo(MaxBeside)}

\* the (user_skills, job_skills) of the scenarios of the specification
ScenarioPairs ==
    {<<(<<"python", "communication", "sql">>), (<<"python", "sql", "leadership">>)>>,
     <<(<<"js">>), (<<"javascript">>)>>,
     <<(<<"senior python developer">>), (<<"junior python developer">>)>>}

\* a user who has every job skill, in another spelling, and the job's
\* seniority: with one technical skill, and with two
CoveredPairs ==
    {<<(<<"senior python developer">>), (<<"Senior Python Developer">>)>>,
     <<(<<"senior python developer", "SQL">>), (<<"sql", "Senior Python Developer">>)>>}

\* lists with related skills: a pair that passes two checks of _are_similar,
\* one user skill twice, an abbreviation on the job's side, and common skills
\* of which one is technical, one a soft skill and one neither
RelatedPairs ==
    {<<(<<"SQL", "ml">>), (<<"Database administration", "machine learning">>)>>,
     <<(<<"js", "js">>), (<<"javascript">>)>>,
     <<(<<"JavaScript">>), (<<"js">>)>>,
     <<(<<"Python", "Leadership", "cooking">>), (<<"leadership", "python", "Cooking ">>)>>}

\* the (user_skills, job_skills) the calls are made with
SkillPairs ==
    ShortPairs \cup LongPairs \cup ScenarioPairs \cup CoveredPairs \cup RelatedPairs

\* the most skills over SenioritySkills the two lists of a call hold together
MaxSenior == 3

\* skills that carry a seniority keyword of each level, and a skill that
\* carries none
SenioritySkills == {"senior dev", "mid-level dev", "junior dev", "sql"}

\* other spellings of those skills, for the skill a second call adds
OtherSpellings == {"Junior Dev ", " SENIOR dev"}

\* job skills without a seniority keyword, enough of them that one more matched
\* job skill adds less to the base percentage than the bonus can add
JobBase == <<"sql", "docker", "git", "react">>

\* user lists over SenioritySkills against job lists of JobBase and then
\* skills of SenioritySkills
SeniorityPairs ==
    UNION {{<<u, JobBase \o t>> :
               u \in [1..ab[1] -> SenioritySkills], t \in [1..ab[2] -> SenioritySkills]} :
           ab \in {xy \in (1..MaxSenior) \X (0..MaxSenior) : xy[1] + xy[2] <= MaxSenior}}

\* the (user_skills, job_skills) of the first of two calls in a row
TwicePairs ==
    SeniorityPairs \cup ScenarioPairs
    \cup {<<LongList, LongList>>, <<(<<>>), LongList>>, <<LongList, (<<>>)>>}

\* lists whose seniority keywords are written in upper case, inside longer
\* words, or are the other keywords of a level
SpelledPairs ==
    {<<(<<"junior dev", " SENIOR dev">>), JobBase \o <<"Junior Dev ">>>>,
     <<(<<"trainee", "Team Lead">>), (<<"associate", "Experienced engineer">>)>>,
     <<(<<"Entry-Level analyst">>), (<<"Principal Architect", "intermediate sql">>)>>}

\* the (user_skills, job_skills) of the calls that look at seniority
ExperiencePairs == SeniorityPairs \cup SpelledPairs

\* every (user_skills, job_skills) a first call is made with
InputPairs == SkillPairs \cup TwicePairs \cup SpelledPairs

\* every skill of those lists
SkillStrings ==
    OtherSpellings
    \cup UNION {{p[1][k] : k \in DOMAIN p[1]} \cup {p[2][k] : k \in DOMAIN p[2]} :
                p \in InputPairs}

\* the skill lists the calls are made with: those of the first calls, and the
\* user lists of the second calls, which hold one more skill
SkillLists ==
    {p[1] : p \in InputPairs} \cup {p[2] : p \in InputPairs}
    \cup {Append(p[1], skill) : p \in TwicePairs, skill \in SkillStrings}

\* the job_description arguments
Descriptions == {""}

\* the user_context arguments: None, or a dict
NoContext == [is_none |-> TRUE, items |-> {}]

Contexts == {NoContext}

\* the job_description arguments of the calls that pass a user_context
JobDescriptions == {"", "Python developer"}

\* the user_context arguments of those calls: None, an empty dict, a dict
\* with a key of the caller's, a dict that has the key "job_description"
UserContexts ==
    {NoContext,
     [is_none |-> FALSE, items |-> {}],
     [is_none |-> FALSE, items |-> {<<"location", "remote">>}],
     [is_none |-> FALSE, items |-> {<<"job_description", "old">>}]}

\* the (user_skills, job_skills) of the calls two threads make at once
ConcurrentPairs == ScenarioPairs \cup {<<(<<>>), (<<"Python">>)>>}

\* the messages str(e) of the exceptions a rule's evaluate raises
ErrorMessages == {"evaluate failed"}

(***************************************************************************)
(* Normalisation.  Both orders of strip and lower are computed once for    *)
(* every skill of the inputs and looked up from then on.                   *)
(***************************************************************************)

\* skill.strip().lower() of every skill
StripLower == [skill \in SkillStrings |-> Lower(Strip(skill))]

\* skill.lower().strip() of every skill
LowerStrip == [skill \in SkillStrings |-> Strip(Lower(skill))]

\* skill.strip().lower(), the normalisation inside the set-based rules
NormRule(skill) == StripLower[skill]

\* skill.lower().strip(), the normalisation inside the engine, the similarity
\* rule and the keyword predicates
NormEngine(skill) == LowerStrip[skill]

\* {skill.strip().lower() for skill in skills}
RuleSet(skills) == {NormRule(skills[k]) : k \in DOMAIN skills}

\* {skill.lower().strip() for skill in skills}
EngineSet(skills) == {NormEngine(skills[k]) : k \in DOMAIN skills}

\* the bag of the elements of a list (the list up to order)
SeqToBag(list) ==
    LET elems == {list[k] : k \in DOMAIN list}
    IN  [e \in elems |-> Cardinality({k \in DOMAIN list : list[k] = e})]

(***************************************************************************)
(* The rules.  Each returns the dict of its evaluate method:               *)
(* score (tenths), matches (a bag), explanation.                           *)
(***************************************************************************)

\* the value None
None == "None"

\* SkillRule.name of the five rules of RulesEngine.rules, in order
RuleNames ==
    <<"Exact Match", "Technical Skills", "Soft Skills", "Similar Skills",
      "Experience Level">>

\* SkillRule.weight of the five rules, in tenths
RuleWeights == <<30, 25, 15, 18, 20>>

\* ExactMatchRule.evaluate on the skills as written, neither trimmed nor
\* lower-cased
ExactMatchRuleAsWritten(user_skills, job_skills) ==
    LET user_set == {user_skills[k] : k \in DOMAIN user_skills}
        job_set == {job_skills[k] : k \in DOMAIN job_skills}
        matches == user_set \cap job_set
    IN  [score |-> Cardinality(matches) * RuleWeights[1],
         matches |-> SetToBag(matches),
         explanation |->
             "Found " \o ToString(Cardinality(matches)) \o " exact skill matches"]

\* ExactMatchRule.evaluate
ExactMatchRule(user_skills, job_skills) ==
    LET user_set == RuleSet(user_skills)
        job_set == RuleSet(job_skills)
        matches == user_set \cap job_set
    IN  [score |-> Cardinality(matches) * RuleWeights[1],
         matches |-> SetToBag(matches),
         explanation |->
             "Found " \o ToString(Cardinality(matches)) \o " exact skill matches"]

\* TechnicalSkillRule.technical_keywords
technical_keywords ==
    {"python", "java", "javascript", "c++", "sql", "html", "css", "react",
     "angular", "node.js", "docker", "kubernetes", "aws", "azure", "git",
     "linux", "mongodb", "postgresql", "mysql", "tensorflow", "pytorch",
     "pandas", "numpy", "django", "flask", "spring", "restapi", "graphql",
     "machine learning", "data analysis", "tableau", "power bi", "excel",
     "r programming", "scala", "golang", "rust"}

\* _is_technical letting every skill through
IsTechnicalAlways(skill) == TRUE

\* TechnicalSkillRule._is_technical
IsTechnical(skill) == ContainsAny(technical_keywords, NormEngine(skill))

\* TechnicalSkillRule.evaluate matching every technical skill of the user,
\* wanted by the job or not
TechnicalSkillRuleOfUser(user_skills, job_skills) ==
    LET user_tech == SelectSeq(user_skills, IsTechnical)
        tech_matches == RuleSet(user_tech)
    IN  [score |-> Cardinality(tech_matches) * RuleWeights[2],
         matches |-> SetToBag(tech_matches),
         explanation |->
             "Found " \o ToString(Cardinality(tech_matches))
                 \o " technical skill matches (weighted 2.5x)"]

\* TechnicalSkillRule.evaluate
TechnicalSkillRule(user_skills, job_skills) ==
    LET user_tech == SelectSeq(user_skills, IsTechnical)
        job_tech == SelectSeq(job_skills, IsTechnical)
        tech_matches == RuleSet(user_tech) \cap RuleSet(job_tech)
    IN  [score |-> Cardinality(tech_matches) * RuleWeights[2],
         matches |-> SetToBag(tech_matches),
         explanation |->
             "Found " \o ToString(Cardinality(tech_matches))
                 \o " technical skill matches (weighted 2.5x)"]

\* SoftSkillRule.soft_skill_keywords
soft_skill_keywords ==
    {"communication", "leadership", "teamwork", "problem solving",
     "critical thinking", "time management", "project management",
     "analytical thinking", "creativity", "adaptability", "collaboration",
     "presentation", "negotiation", "customer service"}

\* SoftSkillRule._is_soft_skill
IsSoftSkill(skill) == ContainsAny(soft_skill_keywords, NormEngine(skill))

\* SoftSkillRule.evaluate
SoftSkillRule(user_skills, job_skills) ==
    LET user_soft == SelectSeq(user_skills, IsSoftSkill)
        job_soft == SelectSeq(job_skills, IsSoftSkill)
        soft_matches == RuleSet(user_soft) \cap RuleSet(job_soft)
    IN  [score |-> Cardinality(soft_matches) * RuleWeights[3],
         matches |-> SetToBag(soft_matches),
         explanation |->
             "Found " \o ToString(Cardinality(soft_matches))
                 \o " soft skill matches (weighted 1.5x)"]

\* SimilarityRule.similarity_map: base skill -> related skills
similarity_map ==
    [python |-> {"scripting", "automation", "data analysis"},
     javascript |-> {"web development", "frontend", "react", "angular"},
     sql |-> {"database", "data querying", "mysql", "postgresql"},
     project_management |-> {"coordination", "planning", "scrum", "agile"},
     data_analysis |-> {"analytics", "statistics", "reporting", "excel"},
     machine_learning |-> {"ai", "artificial intelligence", "deep learning", "ml"},
     communication |-> {"presentation", "writing", "verbal communication"},
     leadership |-> {"management", "team lead", "supervision"}]

\* the key string of each entry of similarity_map
similarity_key ==
    [python |-> "python", javascript |-> "javascript", sql |-> "sql",
     project_management |-> "project management",
     data_analysis |-> "data analysis",
     machine_learning |-> "machine learning",
     communication |-> "communication", leadership |-> "leadership"]

\* the list common_matches of SimilarityRule._are_similar
common_matches ==
    {<<"js", "javascript">>, <<"py", "python">>, <<"sql", "database">>,
     <<"ml", "machine learning">>, <<"ai", "artificial intelligence">>,
     <<"pm", "project management">>, <<"dev", "development">>,
     <<"admin", "administration">>, <<"mgmt", "management">>}

\* the first check of _are_similar: the similarity map, in either direction
SimilarByMap(skill1, skill2) ==
    \E b \in DOMAIN similarity_map :
        \/ Contains(similarity_key[b], skill1) /\ ContainsAny(similarity_map[b], skill2)
        \/ Contains(similarity_key[b], skill2) /\ ContainsAny(similarity_map[b], skill1)

\* the second check of _are_similar: the same first 4 characters
SimilarByPrefix(skill1, skill2) ==
    /\ Len(skill1) >= 4
    /\ Len(skill2) >= 4
    /\ SubSeq(skill1, 1, 4) = SubSeq(skill2, 1, 4)

\* the third check of _are_similar looking for the abbreviation in the first
\* skill only
SimilarByAbbreviationOneWay(skill1, skill2) ==
    \E p \in common_matches : Contains(p[1], skill1) /\ Contains(p[2], skill2)

\* the third check of _are_similar: the abbreviations, in either direction
SimilarByAbbreviation(skill1, skill2) ==
    \E p \in common_matches :
        \/ Contains(p[1], skill1) /\ Contains(p[2], skill2)
        \/ Contains(p[1], skill2) /\ Contains(p[2], skill1)

\* the normalized skills of the inputs
NormalizedSkills == {LowerStrip[skill] : skill \in SkillStrings}

\* the three checks of _are_similar, computed once for every pair of
\* normalized skills of the inputs
SimilarPairs ==
    [p \in NormalizedSkills \X NormalizedSkills |->
        \/ SimilarByMap(p[1], p[2])
        \/ SimilarByPrefix(p[1], p[2])
        \/ SimilarByAbbreviation(p[1], p[2])]

\* SimilarityRule._are_similar
AreSimilar(skill1, skill2) == SimilarPairs[<<skill1, skill2>>]

\* the text appended for a similar pair
SimilarText(user_skill, job_skill) == user_skill \o " ~= " \o job_skill

RECURSIVE SimilarInner(_, _)
\* the inner loop of SimilarityRule.evaluate: the matches of one user skill
SimilarInner(user_skill, job_skills) ==
    IF job_skills = <<>> THEN <<>>
    ELSE (IF AreSimilar(NormEngine(user_skill), NormEngine(Head(job_skills)))
          THEN <<SimilarText(user_skill, Head(job_skills))>> ELSE <<>>)
         \o SimilarInner(user_skill, Tail(job_skills))

RECURSIVE SimilarOuter(_, _)
\* the outer loop of SimilarityRule.evaluate: similar_matches, in loop order
SimilarOuter(user_skills, job_skills) ==
    IF user_skills = <<>> THEN <<>>
    ELSE SimilarInner(Head(user_skills), job_skills)
         \o SimilarOuter(Tail(user_skills), job_skills)

\* SimilarityRule.evaluate (score grows by the weight with every append)
SimilarityRule(user_skills, job_skills) ==
    LET similar_matches == SimilarOuter(user_skills, job_skills)
    IN  [score |-> Len(similar_matches) * RuleWeights[4],
         matches |-> SeqToBag(similar_matches),
         explanation |->
             "Found " \o ToString(Len(similar_matches)) \o " similar skill matches"]

\* the levels scanned from junior up
experience_levels_ascending == <<"junior", "mid", "senior">>

\* ExperienceRule.experience_keywords, a dict iterated in insertion order
experience_levels == <<"senior", "mid", "junior">>

\* the keywords of each level of experience_keywords
experience_keywords ==
    [senior |-> {"senior", "lead", "principal", "architect"},
     mid |-> {"mid-level", "intermediate", "experienced"},
     junior |-> {"junior", "entry-level", "associate", "trainee"}]

RECURSIVE FirstLevel(_, _)
\* the loop of _extract_experience_level over the levels from position k
FirstLevel(skills_text, k) ==
    IF k > Len(experience_levels) THEN None
    ELSE IF ContainsAny(experience_keywords[experience_levels[k]], skills_text)
         THEN experience_levels[k]
         ELSE FirstLevel(skills_text, k + 1)

\* _extract_experience_level, computed once for every skill list of the inputs
ExperienceLevels == [list \in SkillLists |-> FirstLevel(Lower(Join(" ", list)), 1)]

\* ExperienceRule._extract_experience_level
ExtractExperienceLevel(skills) == ExperienceLevels[skills]

\* ExperienceRule.evaluate with every user level above the job's level taken
\* as compatible
ExperienceOutcomeAbove(user_exp, job_exp) ==
    IF user_exp # None /\ job_exp # None
    THEN IF user_exp = job_exp
         THEN [score |-> RuleWeights[5] * 3,
               explanation |-> "Experience level match: " \o user_exp]
         ELSE IF \/ user_exp = "senior"
                 \/ user_exp = "mid" /\ job_exp = "junior"
              THEN [score |-> RuleWeights[5] * 2,
                    explanation |->
                        "Experience level compatible: " \o user_exp \o " > " \o job_exp]
              ELSE [score |-> RuleWeights[5] \div 2,
                    explanation |->
                        "Experience level mismatch: " \o user_exp \o " vs " \o job_exp]
    ELSE [score |-> 0, explanation |-> ""]

\* ExperienceRule.evaluate: score and explanation ("" when no branch is taken)
ExperienceOutcome(user_exp, job_exp) ==
    IF user_exp # None /\ job_exp # None
    THEN IF user_exp = job_exp
         THEN [score |-> RuleWeights[5] * 3,
               explanation |-> "Experience level match: " \o user_exp]
         ELSE IF \/ user_exp = "senior" /\ job_exp = "mid"
                 \/ user_exp = "mid" /\ job_exp = "junior"
              THEN [score |-> RuleWeights[5] * 2,
                    explanation |->
                        "Experience level compatible: " \o user_exp \o " > " \o job_exp]
              ELSE [score |-> RuleWeights[5] \div 2,
                    explanation |->
                        "Experience level mismatch: " \o user_exp \o " vs " \o job_exp]
    ELSE [score |-> 0, explanation |-> ""]

\* ExperienceRule.evaluate
ExperienceRule(user_skills, job_skills) ==
    LET o == ExperienceOutcome(ExtractExperienceLevel(user_skills),
                               ExtractExperienceLevel(job_skills))
    IN  [score |-> o.score,
         matches |-> IF o.explanation # "" THEN SetToBag({o.explanation}) ELSE EmptyBag,
         explanation |->
             IF o.explanation # "" THEN o.explanation
             ELSE "No clear experience level indicators found"]

\* rule.evaluate(user_skills, job_skills, context) for the i-th rule of
\* RulesEngine.rules (no rule reads the context)
Evaluate(i, user_skills, job_skills) ==
    CASE i = 1 -> ExactMatchRule(user_skills, job_skills)
      [] i = 2 -> TechnicalSkillRule(user_skills, job_skills)
      [] i = 3 -> SoftSkillRule(user_skills, job_skills)
      [] i = 4 -> SimilarityRule(user_skills, job_skills)
      [] i = 5 -> ExperienceRule(user_skills, job_skills)

(***************************************************************************)
(* RulesEngine.evaluate_match and its helpers                              *)
(***************************************************************************)

\* the entry appended to rule_results when rule i returns result
RuleResult(i, result) ==
    [rule_name |-> RuleNames[i],
     score |-> result.score,
     weight |-> RuleWeights[i],
     matches |-> result.matches,
     explanation |-> result.explanation]

\* ErrorResult with the failed rule still credited with its weight
ErrorResultCredited(i, message) ==
    [rule_name |-> RuleNames[i],
     score |-> RuleWeights[i],
     weight |-> RuleWeights[i],
     matches |-> EmptyBag,
     explanation |-> "Error: " \o message]

\* the entry appended to rule_results when rule i raises an exception e, str(e) = message
ErrorResult(i, message) ==
    [rule_name |-> RuleNames[i],
     score |-> 0,
     weight |-> RuleWeights[i],
     matches |-> EmptyBag,
     explanation |-> "Error: " \o message]

\* min(a, b)
Min(a, b) == IF a <= b THEN a ELSE b

\* max(a, b)
Max(a, b) == IF a >= b THEN a ELSE b

\* Percentage without the min(100, ...) around it
PercentageUncut(user_skills, job_skills, total) ==
    LET job_skills_lower == EngineSet(job_skills)
        user_skills_lower == EngineSet(user_skills)
        exact_matches == Cardinality(job_skills_lower \cap user_skills_lower)
        n == Max(1, Cardinality(job_skills_lower))
        rule_bonus == Min(300, total * 2)
    IN  (1000 * exact_matches + rule_bonus * n) \div (10 * n)

\* Percentage without the cap of 30 on the bonus
PercentageBonusUncapped(user_skills, job_skills, total) ==
    LET job_skills_lower == EngineSet(job_skills)
        user_skills_lower == EngineSet(user_skills)
        exact_matches == Cardinality(job_skills_lower \cap user_skills_lower)
        n == Max(1, Cardinality(job_skills_lower))
        rule_bonus == total * 2
    IN  Min(100, (1000 * exact_matches + rule_bonus * n) \div (10 * n))

\* Percentage counting the job skills the user lacks (a set difference in
\* place of the intersection)
PercentageOfLacking(user_skills, job_skills, total) ==
    LET job_skills_lower == EngineSet(job_skills)
        user_skills_lower == EngineSet(user_skills)
        exact_matches == Cardinality(job_skills_lower \ user_skills_lower)
        n == Max(1, Cardinality(job_skills_lower))
        rule_bonus == Min(300, total * 2)
    IN  Min(100, (1000 * exact_matches + rule_bonus * n) \div (10 * n))

\* the percentage with the base taken over the entries of job_skills, not over
\* its distinct normalized skills
PercentageOverEntries(user_skills, job_skills, total) ==
    LET job_skills_lower == EngineSet(job_skills)
        user_skills_lower == EngineSet(user_skills)
        exact_matches == Cardinality(job_skills_lower \cap user_skills_lower)
        n == Max(1, Len(job_skills))
        rule_bonus == Min(300, total * 2)
    IN  Min(100, (1000 * exact_matches + rule_bonus * n) \div (10 * n))

\* the percentage of evaluate_match; total_score in tenths.
\* base_percentage + rule_bonus is the fraction
\* (1000 * exact_matches + bonus * n) / (10 * n), never negative, and int() cuts
\* it to its integer part.
Percentage(user_skills, job_skills, total) ==
    LET job_skills_lower == EngineSet(job_skills)
        user_skills_lower == EngineSet(user_skills)
        exact_matches == Cardinality(job_skills_lower \cap user_skills_lower)
        n == Max(1, Cardinality(job_skills_lower))
        rule_bonus == Min(300, total * 2)
    IN  Min(100, (1000 * exact_matches + rule_bonus * n) \div (10 * n))

\* MissingSkills looking the job skill up as written, not normalised
MissingSkillsAsWritten(user_skills, job_skills) ==
    LET user_skills_lower == EngineSet(user_skills)
        IsMissing(skill) == skill \notin user_skills_lower
    IN  SelectSeq(job_skills, IsMissing)

\* the missing_skills list of evaluate_match, before it is cut
MissingSkills(user_skills, job_skills) ==
    LET user_skills_lower == EngineSet(user_skills)
        IsMissing(skill) == NormEngine(skill) \notin user_skills_lower
    IN  SelectSeq(job_skills, IsMissing)

\* list[:n]
Take(list, n) == SubSeq(list, 1, Min(n, Len(list)))

\* TierMessage with > in place of >= at the thresholds
TierMessageStrict(percentage) ==
    IF percentage > 80 THEN "Excellent match! You have most required skills."
    ELSE IF percentage > 60 THEN "Good match! Focus on closing key skill gaps."
    ELSE IF percentage > 40
         THEN "Moderate match. Significant skill development needed."
         ELSE "Low match. Consider building foundational skills first."

\* the percentage-tier line of _generate_recommendations
TierMessage(percentage) ==
    IF percentage >= 80 THEN "Excellent match! You have most required skills."
    ELSE IF percentage >= 60 THEN "Good match! Focus on closing key skill gaps."
    ELSE IF percentage >= 40
         THEN "Moderate match. Significant skill development needed."
         ELSE "Low match. Consider building foundational skills first."

TechnicalAdvice == "Focus on building technical skills for better job match."

ExperienceAdvice == "Consider roles matching your experience level."

RECURSIVE RuleAdviceAnyRule(_)
\* RuleAdvice comparing the scores without looking at the rule's name
RuleAdviceAnyRule(results) ==
    IF results = <<>> THEN <<>>
    ELSE LET r == Head(results)
         IN  (IF r.score < 30
              THEN <<TechnicalAdvice>>
              ELSE IF r.score < 20
                   THEN <<ExperienceAdvice>>
                   ELSE <<>>)
             \o RuleAdviceAnyRule(Tail(results))

RECURSIVE RuleAdvice(_)
\* the loop of _generate_recommendations over rule_results
RuleAdvice(results) ==
    IF results = <<>> THEN <<>>
    ELSE LET r == Head(results)
         IN  (IF r.rule_name = "Technical Skills" /\ r.score < 30
              THEN <<TechnicalAdvice>>
              ELSE IF r.rule_name = "Experience Level" /\ r.score < 20
                   THEN <<ExperienceAdvice>>
                   ELSE <<>>)
             \o RuleAdvice(Tail(results))

\* PriorityLine listing every missing skill, without the [:3]
PriorityLineAll(missing_skills) ==
    "Priority skills to learn: " \o Join(", ", missing_skills)

\* the priority-skills line of _generate_recommendations
PriorityLine(missing_skills) ==
    "Priority skills to learn: " \o Join(", ", Take(missing_skills, 3))

\* RulesEngine._generate_recommendations
GenerateRecommendations(results, missing_skills, percentage) ==
    <<TierMessage(percentage)>>
    \o RuleAdvice(results)
    \o (IF missing_skills # <<>> THEN <<PriorityLine(missing_skills)>> ELSE <<>>)

RECURSIVE SubsetsOfSize(_, _)
\* the subsets of S with k elements
SubsetsOfSize(S, k) ==
    IF k = 0 THEN {{}}
    ELSE IF Cardinality(S) < k THEN {}
    ELSE LET x == CHOOSE y \in S : TRUE
         IN  {T \cup {x} : T \in SubsetsOfSize(S \ {x}, k - 1)}
             \cup SubsetsOfSize(S \ {x}, k)

\* DedupTake without the set(): matches[:n] of a list short enough
DedupTakeNoSet(matches, n) ==
    IF BagCardinality(matches) <= n THEN {matches}
    ELSE LET distinct == BagToSet(matches)
         IN  IF Cardinality(distinct) <= n THEN {SetToBag(distinct)}
             ELSE {SetToBag(distinct \ D) :
                       D \in SubsetsOfSize(distinct, Cardinality(distinct) - n)}

\* list(set(matches))[:n]: the contents the slice can keep.  The iteration
\* order of a set is unspecified, so when the set has more than n elements any
\* n of them may be the ones kept.
DedupTake(matches, n) ==
    LET distinct == BagToSet(matches)
    IN  IF Cardinality(distinct) <= n THEN {SetToBag(distinct)}
        ELSE {SetToBag(distinct \ D) :
                  D \in SubsetsOfSize(distinct, Cardinality(distinct) - n)}

\* EmptyReport with missing_skills cut to 10 like the full report's
EmptyReportCut(job_skills) ==
    [total_score |-> 0,
     percentage |-> 0,
     rule_results |-> <<>>,
     recommendations |-> <<"No skills data available for comparison">>,
     missing_skills |-> Take(job_skills, 10),
     matched_skills |-> EmptyBag]

\* the dict evaluate_match returns when a skill list is empty
EmptyReport(job_skills) ==
    [total_score |-> 0,
     percentage |-> 0,
     rule_results |-> <<>>,
     recommendations |-> <<"No skills data available for comparison">>,
     missing_skills |-> IF job_skills # <<>> THEN job_skills ELSE <<>>,
     matched_skills |-> EmptyBag]

\* the dict evaluate_match returns after the rules ran; matched is one of
\* DedupTake(all_matches, 15)
FullReport(user_skills, job_skills, results, total, matched) ==
    LET percentage == Percentage(user_skills, job_skills, total)
        missing_skills == MissingSkills(user_skills, job_skills)
    IN  [total_score |-> total,
         percentage |-> percentage,
         rule_results |-> results,
         recommendations |->
             GenerateRecommendations(results, missing_skills, percentage),
         missing_skills |-> Take(missing_skills, 10),
         matched_skills |-> matched]

\* SkillsMatchResult with matched and missing taken from the wrong keys
SkillsMatchResultSwapped(result) ==
    [score |-> result.percentage,
     matched |-> result.missing_skills,
     missing |-> result.matched_skills,
     detailed_analysis |-> result,
     recommendations |-> result.recommendations]

\* the dict evaluate_skills_match builds from the engine's result
SkillsMatchResult(result) ==
    [score |-> result.percentage,
     matched |-> result.matched_skills,
     missing |-> result.missing_skills,
     detailed_analysis |-> result,
     recommendations |-> result.recommendations]

\* the dict score_from_skill_lists returns when jd_skills is empty
FacadeEmpty == [score |-> 0, matched |-> EmptyBag, missing |-> <<>>]

\* the dict score_from_skill_lists builds from evaluate_skills_match's result
FacadeResult(result) ==
    [score |-> result.score,
     matched |-> result.matched,
     missing |-> result.missing,
     rules_analysis |-> result.detailed_analysis,
     recommendations |-> result.recommendations]

\* a dict as a set of <<key, value>> pairs: d[key] = value
DictPut(d, key, value) == {p \in d : p[1] # key} \cup {<<key, value>>}

(***************************************************************************)
(* The state: one caller, the frame of evaluate_match, and what came back  *)
(***************************************************************************)
VARIABLES
    pc,              \* where the call stands
    caller,          \* "engine": evaluate_match called directly; "facade": through score_from_skill_lists
    user_skills,     \* argument
    job_skills,      \* argument
    job_description, \* argument
    user_context,    \* the caller's user_context object
    context,         \* local of evaluate_match (a dict)
    i,               \* position of the for loop in self.rules
    rule_results,    \* local
    total_score,     \* local, in tenths
    all_matches,     \* local, a bag
    raised,          \* the rules whose evaluate raised in this call, with the message
    report,          \* the dict evaluate_match returned
    facade_result,   \* the dict score_from_skill_lists returned
    first,           \* the arguments and the report of the caller's call before this one
    other            \* the frame of a second call, made by another thread on the same engine

vars ==
    <<pc, caller, user_skills, job_skills, job_description, user_context, context,
      i, rule_results, total_score, all_matches, raised, report, facade_result,
      first, other>>

\* the state outside the frame of the call
outside == <<first, other>>

\* no dict returned yet
Nothing == [nothing |-> TRUE]

\* no rule raised
NoneRaised == [k \in {} |-> ""]

\* the frame of the second thread before its call
OtherIdle ==
    [pc |-> "idle", user_skills |-> <<>>, job_skills |-> <<>>,
     job_description |-> "", shares |-> FALSE, aliased |-> FALSE, context |-> {},
     i |-> 0, rule_results |-> <<>>, total_score |-> 0, all_matches |-> EmptyBag,
     report |-> Nothing]

Init ==
    /\ pc = "idle"
    /\ caller = "nobody"
    /\ user_skills = <<>>
    /\ job_skills = <<>>
    /\ job_description = ""
    /\ user_context = NoContext
    /\ context = {}
    /\ i = 0
    /\ rule_results = <<>>
    /\ total_score = 0
    /\ all_matches = EmptyBag
    /\ raised = NoneRaised
    /\ report = Nothing
    /\ facade_result = Nothing
    /\ first = Nothing
    /\ other = OtherIdle

\* a caller calls RulesEngine().evaluate_match(u, j, d, c), the arguments
\* drawn from the given sets
CallWith(pairs, descriptions, contexts) ==
    /\ pc = "idle"
    /\ \E p \in pairs, d \in descriptions, c \in contexts :
        /\ user_skills' = p[1]
        /\ job_skills' = p[2]
        /\ job_description' = d
        /\ user_context' = c
    /\ caller' = "engine"
    /\ pc' = "enter"
    /\ UNCHANGED <<context, i, rule_results, total_score, all_matches, raised,
                   report, facade_result>>
    /\ UNCHANGED outside

\* a caller calls RulesEngine().evaluate_match(u, j, d, c)
CallEngine == CallWith(SkillPairs, Descriptions, Contexts)

\* the first of two calls in a row on one engine
CallFirst == CallWith(TwicePairs, Descriptions, Contexts)

\* a caller calls evaluate_match(u, j) with lists that name seniority levels
CallExperience == CallWith(ExperiencePairs, Descriptions, Contexts)

\* a caller calls evaluate_match(u, j, d, c) with a job description and a
\* user_context of its own
CallContext == CallWith(ShortPairs \cup ScenarioPairs, JobDescriptions, UserContexts)

\* the job skills missing from a report, in every spelling of the inputs
MissingSpellings(r) ==
    {skill \in SkillStrings :
        \E k \in DOMAIN r.missing_skills :
            NormEngine(skill) = NormEngine(r.missing_skills[k])}

\* the caller keeps the report and calls evaluate_match again on the same
\* engine: with the same arguments, or with one of the missing job skills
\* added at the end of user_skills
CallAgain ==
    /\ pc = "returned"
    /\ caller = "engine"
    /\ first = Nothing
    /\ first' = [user_skills |-> user_skills, job_skills |-> job_skills,
                 report |-> report]
    /\ \E u \in {user_skills}
                 \cup {Append(user_skills, skill) : skill \in MissingSpellings(report)} :
        user_skills' = u
    /\ pc' = "enter"
    /\ UNCHANGED <<caller, job_skills, job_description, user_context, context, i,
                   rule_results, total_score, all_matches, raised, report,
                   facade_result, other>>

\* CallFacade without the test of jd_skills: every call goes to the engine
CallFacadeThrough ==
    /\ pc = "idle"
    /\ \E p \in SkillPairs, d \in Descriptions :
        /\ user_skills' = p[1]
        /\ job_skills' = p[2]
        /\ job_description' = d
    /\ facade_result' = facade_result
    /\ pc' = "enter"
    /\ caller' = "facade"
    /\ UNCHANGED <<user_context, context, i, rule_results, total_score,
                   all_matches, raised, report>>
    /\ UNCHANGED outside

\* a caller calls score_from_skill_lists(u, j, d): an empty jd_skills returns at
\* once, anything else goes to evaluate_skills_match, which calls
\* evaluate_match(u, j, d) on a new engine
CallFacade ==
    /\ pc = "idle"
    /\ \E p \in SkillPairs, d \in Descriptions :
        /\ user_skills' = p[1]
        /\ job_skills' = p[2]
        /\ job_description' = d
        /\ IF p[2] = <<>>
           THEN /\ facade_result' = FacadeEmpty
                /\ pc' = "done"
           ELSE /\ facade_result' = facade_result
                /\ pc' = "enter"
    /\ caller' = "facade"
    /\ UNCHANGED <<user_context, context, i, rule_results, total_score,
                   all_matches, raised, report>>
    /\ UNCHANGED outside

\* evaluate_match with an empty list: the early return
ShortCircuit ==
    /\ pc = "enter"
    /\ user_skills = <<>> \/ job_skills = <<>>
    /\ report' = EmptyReport(job_skills)
    /\ pc' = "returned"
    /\ UNCHANGED <<caller, user_skills, job_skills, job_description, user_context,
                   context, i, rule_results, total_score, all_matches, raised,
                   facade_result>>
    /\ UNCHANGED outside

\* evaluate_match with two non-empty lists: the locals and the context.
\* "user_context or {}" is the caller's dict itself when that is not empty, so
\* the assignment to context["job_description"] writes into it.
Begin ==
    /\ pc = "enter"
    /\ user_skills # <<>>
    /\ job_skills # <<>>
    /\ rule_results' = <<>>
    /\ total_score' = 0
    /\ all_matches' = EmptyBag
    /\ IF user_context.is_none \/ user_context.items = {}
       THEN /\ context' = DictPut({}, "job_description", job_description)
            /\ user_context' = user_context
       ELSE /\ context' = DictPut(user_context.items, "job_description", job_description)
            /\ user_context' = [user_context EXCEPT !.items = context']
    /\ i' = 1
    /\ pc' = "loop"
    /\ UNCHANGED <<caller, user_skills, job_skills, job_description, raised,
                   report, facade_result>>
    /\ UNCHANGED outside

\* RuleReturns adding score * weight to total_score
RuleReturnsWeighted ==
    /\ pc = "loop"
    /\ i <= Len(RuleNames)
    /\ LET rule_result == RuleResult(i, Evaluate(i, user_skills, job_skills))
       IN  /\ rule_results' = Append(rule_results, rule_result)
           /\ total_score' = total_score + rule_result.score * rule_result.weight
           /\ all_matches' = all_matches (+) rule_result.matches
    /\ i' = i + 1
    /\ UNCHANGED <<pc, caller, user_skills, job_skills, job_description,
                   user_context, context, raised, report, facade_result>>
    /\ UNCHANGED outside

\* one pass of the for loop whose rule.evaluate returns
RuleReturns ==
    /\ pc = "loop"
    /\ i <= Len(RuleNames)
    /\ LET rule_result == RuleResult(i, Evaluate(i, user_skills, job_skills))
       IN  /\ rule_results' = Append(rule_results, rule_result)
           /\ total_score' = total_score + rule_result.score
           /\ all_matches' = all_matches (+) rule_result.matches
    /\ i' = i + 1
    /\ UNCHANGED <<pc, caller, user_skills, job_skills, job_description,
                   user_context, context, raised, report, facade_result>>
    /\ UNCHANGED outside

\* RuleRaises with an except branch that appends nothing
RuleRaisesSkipped ==
    /\ pc = "loop"
    /\ i <= Len(RuleNames)
    /\ \E m \in ErrorMessages :
        raised' = [k \in DOMAIN raised \cup {i} |-> IF k = i THEN m ELSE raised[k]]
    /\ i' = i + 1
    /\ UNCHANGED <<pc, caller, user_skills, job_skills, job_description,
                   user_context, context, rule_results, total_score, all_matches,
                   report, facade_result>>
    /\ UNCHANGED outside

\* one pass of the for loop whose rule.evaluate raises: the except branch
RuleRaises ==
    /\ pc = "loop"
    /\ i <= Len(RuleNames)
    /\ \E m \in ErrorMessages :
        /\ rule_results' = Append(rule_results, ErrorResult(i, m))
        /\ raised' = [k \in DOMAIN raised \cup {i} |-> IF k = i THEN m ELSE raised[k]]
    /\ i' = i + 1
    /\ UNCHANGED <<pc, caller, user_skills, job_skills, job_description,
                   user_context, context, total_score, all_matches, report,
                   facade_result>>
    /\ UNCHANGED outside

\* after the loop: percentage, missing skills, recommendations, the return
Finish ==
    /\ pc = "loop"
    /\ i > Len(RuleNames)
    /\ \E matched \in DedupTake(all_matches, 15) :
        report' = FullReport(user_skills, job_skills, rule_results, total_score,
                             matched)
    /\ pc' = "returned"
    /\ UNCHANGED <<caller, user_skills, job_skills, job_description, user_context,
                   context, i, rule_results, total_score, all_matches, raised,
                   facade_result>>
    /\ UNCHANGED outside

\* evaluate_skills_match and score_from_skill_lists wrap the engine's dict
FacadeReturns ==
    /\ pc = "returned"
    /\ caller = "facade"
    /\ facade_result' = FacadeResult(SkillsMatchResult(report))
    /\ pc' = "done"
    /\ UNCHANGED <<caller, user_skills, job_skills, job_description, user_context,
                   context, i, rule_results, total_score, all_matches, raised,
                   report>>
    /\ UNCHANGED outside

\* the first thread's call, of two threads calling at once
CallConcurrent == CallWith(ConcurrentPairs, JobDescriptions, UserContexts)

\* the frame of the first thread
frame ==
    <<pc, caller, user_skills, job_skills, job_description, i, rule_results,
      total_score, all_matches, raised, report, facade_result>>

\* the first thread's context is the caller's dict itself
MainAliased ==
    /\ pc \in {"loop", "returned"}
    /\ ~user_context.is_none
    /\ user_context.items # {}

\* the dict the local context of the second thread refers to
OtherContext == IF other.aliased THEN user_context.items ELSE other.context

\* a second thread calls evaluate_match(u, j, d, c) on the same engine while
\* the first call is under way; c is the dict object the first caller passed,
\* or None
OtherCall ==
    /\ pc # "idle"
    /\ other.pc = "idle"
    /\ \E p \in ConcurrentPairs, d \in JobDescriptions, sh \in BOOLEAN :
        other' = [other EXCEPT !.pc = "enter", !.user_skills = p[1],
                               !.job_skills = p[2], !.job_description = d,
                               !.shares = sh]
    /\ UNCHANGED <<frame, user_context, context, first>>

\* the early return of the second thread's call
OtherShortCircuit ==
    /\ other.pc = "enter"
    /\ other.user_skills = <<>> \/ other.job_skills = <<>>
    /\ other' = [other EXCEPT !.report = EmptyReport(other.job_skills),
                              !.pc = "returned"]
    /\ UNCHANGED <<frame, user_context, context, first>>

\* the locals and the context of the second thread's call.  When its context
\* is the shared dict, the write of "job_description" is a write into the dict
\* the first thread's context may be as well.
OtherBegin ==
    /\ other.pc = "enter"
    /\ other.user_skills # <<>>
    /\ other.job_skills # <<>>
    /\ LET aliased == other.shares /\ ~user_context.is_none /\ user_context.items # {}
           written == DictPut(IF aliased THEN user_context.items ELSE {},
                              "job_description", other.job_description)
       IN  /\ other' = [other EXCEPT !.pc = "loop", !.i = 1, !.rule_results = <<>>,
                                     !.total_score = 0, !.all_matches = EmptyBag,
                                     !.aliased = aliased, !.context = written]
           /\ IF aliased
              THEN /\ user_context' = [user_context EXCEPT !.items = written]
                   /\ context' = IF MainAliased THEN written ELSE context
              ELSE UNCHANGED <<user_context, context>>
    /\ UNCHANGED <<frame, first>>

\* one pass of the for loop of the second thread's call
OtherRuleReturns ==
    /\ other.pc = "loop"
    /\ other.i <= Len(RuleNames)
    /\ LET rule_result ==
               RuleResult(other.i, Evaluate(other.i, other.user_skills, other.job_skills))
       IN  other' = [other EXCEPT
                        !.rule_results = Append(other.rule_results, rule_result),
                        !.total_score = other.total_score + rule_result.score,
                        !.all_matches = other.all_matches (+) rule_result.matches,
                        !.i = other.i + 1]
    /\ UNCHANGED <<frame, user_context, context, first>>

\* the return of the second thread's call
OtherFinish ==
    /\ other.pc = "loop"
    /\ other.i > Len(RuleNames)
    /\ \E matched \in DedupTake(other.all_matches, 15) :
        other' = [other EXCEPT
                     !.report = FullReport(other.user_skills, other.job_skills,
                                           other.rule_results, other.total_score,
                                           matched),
                     !.pc = "returned"]
    /\ UNCHANGED <<frame, user_context, context, first>>

Next ==
    \/ CallEngine
    \/ CallFacade
    \/ ShortCircuit
    \/ Begin
    \/ RuleReturns
    \/ RuleRaises
    \/ Finish
    \/ FacadeReturns

Spec == Init /\ [][Next]_vars

\* two calls in a row on one engine, every rule returning
NextTwice ==
    \/ CallFirst
    \/ ShortCircuit
    \/ Begin
    \/ RuleReturns
    \/ Finish
    \/ CallAgain

SpecTwice == Init /\ [][NextTwice]_vars

\* one call with lists that name seniority levels, every rule returning
NextExperience ==
    \/ CallExperience
    \/ Begin
    \/ RuleReturns
    \/ Finish

SpecExperience == Init /\ [][NextExperience]_vars

\* one call that passes a job description and a user_context, every rule
\* returning
NextContext ==
    \/ CallContext
    \/ ShortCircuit
    \/ Begin
    \/ RuleReturns
    \/ Finish

SpecContext == Init /\ [][NextContext]_vars

\* two threads call evaluate_match on one engine with no lock; their steps
\* interleave in every order
NextConcurrent ==
    \/ CallConcurrent
    \/ ShortCircuit
    \/ Begin
    \/ RuleReturns
    \/ Finish
    \/ OtherCall
    \/ OtherShortCircuit
    \/ OtherBegin
    \/ OtherRuleReturns
    \/ OtherFinish

SpecConcurrent == Init /\ [][NextConcurrent]_vars

(***************************************************************************)
(* Properties                                                              *)
(***************************************************************************)

\* evaluate_match has returned from a call with two non-empty lists
ReturnedFull == pc = "returned" /\ user_skills # <<>> /\ job_skills # <<>>

\* evaluate_match has returned from a call with an empty list
ReturnedEmpty == pc = "returned" /\ (user_skills = <<>> \/ job_skills = <<>>)

\* the rules of the call that did not raise
Unraised == (1..Len(RuleNames)) \ DOMAIN raised

RECURSIVE SumScores(_)
\* the sum of the score fields of a list of rule results
SumScores(results) ==
    IF results = <<>> THEN 0 ELSE Head(results).score + SumScores(Tail(results))

RECURSIVE SumOver(_, _)
\* the sum of f over the set S
SumOver(f, S) ==
    IF S = {} THEN 0
    ELSE LET x == CHOOSE y \in S : TRUE IN f[x] + SumOver(f, S \ {x})

\* the distinct lower-cased, trimmed skills of a list, from the characters
NormalizedSet(skills) == {Strip(Lower(skills[k])) : k \in DOMAIN skills}

\* C1: for two non-empty lists the percentage of the report is an integer
\* from 0 to 100, whatever total_score is
C1_PercentageInRange == ReturnedFull => report.percentage \in 0..100

\* C1 witness: a report whose total_score is far above the bonus cap and
\* whose percentage is 100, and the call ran every rule
C1_Witness ==
    /\ ReturnedFull
    /\ raised = NoneRaised
    /\ report.total_score > 1000
    /\ report.percentage = 100

\* C2: for two non-empty lists rule_results has 5 entries, one per rule in
\* the order Exact Match, Technical Skills, Soft Skills, Similar Skills,
\* Experience Level, whichever rules raised
C2_OneResultPerRule ==
    ReturnedFull =>
        /\ Len(report.rule_results) = 5
        /\ [k \in 1..5 |-> report.rule_results[k].rule_name]
               = <<"Exact Match", "Technical Skills", "Soft Skills",
                   "Similar Skills", "Experience Level">>

\* C2 witness: a report of a call in which the second and the fourth rule
\* raised and the others returned
C2_Witness == ReturnedFull /\ DOMAIN raised = {2, 4}

\* C3: a rule that raises does not end the call: its entry has score 0, no
\* matches and the error message as explanation, it adds nothing to
\* total_score or matched_skills, and the entries of the other rules are what
\* those rules return for the two lists
C3_FailureIsolated ==
    /\ raised # NoneRaised => pc \in {"loop", "returned", "done"}
    /\ ReturnedFull =>
        /\ \A k \in DOMAIN raised :
               /\ report.rule_results[k].score = 0
               /\ report.rule_results[k].matches = EmptyBag
               /\ report.rule_results[k].explanation = "Error: " \o raised[k]
        /\ \A k \in Unraised :
               LET result == Evaluate(k, user_skills, job_skills)
               IN  report.rule_results[k] =
                       [rule_name |-> RuleNames[k], score |-> result.score,
                        weight |-> RuleWeights[k], matches |-> result.matches,
                        explanation |-> result.explanation]
        /\ report.total_score =
               SumOver([k \in Unraised |-> report.rule_results[k].score], Unraised)
        /\ BagToSet(report.matched_skills)
               \subseteq UNION {BagToSet(report.rule_results[k].matches) : k \in Unraised}

\* C3 witness: a report of a call in which the exact-match rule raised, while
\* it would have found a match, and other rules scored
C3_Witness ==
    /\ ReturnedFull
    /\ DOMAIN raised = {1, 5}
    /\ ExactMatchRule(user_skills, job_skills).score > 0
    /\ report.total_score > 0

\* C4: with an empty list no rule runs and the report is total_score 0,
\* percentage 0, no rule results, the one "no skills data" recommendation, no
\* matched skills, and job_skills itself as missing_skills
C4_EmptyShortCircuit ==
    ReturnedEmpty =>
        /\ i = 0
        /\ rule_results = <<>>
        /\ raised = NoneRaised
        /\ report.total_score = 0
        /\ report.percentage = 0
        /\ report.rule_results = <<>>
        /\ report.recommendations = <<"No skills data available for comparison">>
        /\ report.matched_skills = EmptyBag
        /\ report.missing_skills = job_skills

\* C4 witness: the report for no user skills and a job list of more than 10
\* entries
C4_Witness == ReturnedEmpty /\ user_skills = <<>> /\ Len(job_skills) > 10

\* C5: for two non-empty lists percentage = min(100, floor(base + bonus)),
\* base = 100 * |job and user| / max(1, |job|) over the distinct normalized
\* skills and bonus = min(30, 2 * total_score); the scenario lists give base
\* 66 and a percentage from 66 to 100
C5_PercentageFormula ==
    ReturnedFull =>
        LET job == NormalizedSet(job_skills)
            user == NormalizedSet(user_skills)
            common == Cardinality(job \cap user)
            n == IF Cardinality(job) >= 1 THEN Cardinality(job) ELSE 1
            twice == 2 * report.total_score
            bonus == IF twice <= 300 THEN twice ELSE 300
            floor == (1000 * common + bonus * n) \div (10 * n)
        IN  /\ report.percentage = IF floor <= 100 THEN floor ELSE 100
            /\ (/\ user_skills = <<"python", "communication", "sql">>
                /\ job_skills = <<"python", "sql", "leadership">>)
               => /\ (100 * common) \div n = 66
                  /\ report.percentage \in 66..100

\* C5 witness: the report of the scenario, every rule returning, and a report
\* whose bonus is cut to 30 with a percentage under 100
C5_Witness ==
    /\ ReturnedFull
    /\ raised = NoneRaised
    /\ \/ /\ user_skills = <<"python", "communication", "sql">>
          /\ job_skills = <<"python", "sql", "leadership">>
          /\ report.percentage = 92
       \/ /\ report.total_score > 150
          /\ report.percentage = 80

RECURSIVE Absent(_, _, _)
\* the skills of the list job, from position k on, whose normalized form is
\* not in the set user
Absent(user, job, k) ==
    IF k > Len(job) THEN <<>>
    ELSE (IF Strip(Lower(job[k])) \in user THEN <<>> ELSE <<job[k]>>)
         \o Absent(user, job, k + 1)

\* C7: for two non-empty lists missing_skills is the first 10 of the job
\* skills, as written and in order, duplicates kept, whose lower-cased,
\* trimmed form is that of no user skill
C7_MissingSkills ==
    ReturnedFull =>
        LET absent == Absent(NormalizedSet(user_skills), job_skills, 1)
        IN  report.missing_skills =
                [k \in 1..(IF Len(absent) <= 10 THEN Len(absent) ELSE 10) |-> absent[k]]

\* C7 witness: more than 10 job skills are absent, a skill among them twice
C7_Witness ==
    /\ ReturnedFull
    /\ Len(Absent(NormalizedSet(user_skills), job_skills, 1)) > 10
    /\ Len(report.missing_skills) = 10
    /\ report.missing_skills[1] = report.missing_skills[5]

\* C7 witness of the normalisation: a job skill written differently from the
\* user's is not missing
C7_WitnessSpelling ==
    /\ ReturnedFull
    /\ user_skills = <<"python ">>
    /\ job_skills = <<"Python", "leadership">>
    /\ report.missing_skills = <<"leadership">>

\* C8: every report evaluate_match returns, the report of the early return
\* included, has at most 10 entries in missing_skills
C8_AtMostTenMissing == pc = "returned" => Len(report.missing_skills) <= 10

\* C9: matched_skills holds no string twice, has at most 15 entries, each an
\* element of some rule's matches, and is the union of the rules' matches
\* when that has at most 15 strings
C9_MatchedSkills ==
    ReturnedFull =>
        LET union == UNION {BagToSet(report.rule_results[k].matches) :
                               k \in DOMAIN report.rule_results}
            matched == report.matched_skills
        IN  /\ \A e \in BagToSet(matched) : CopiesIn(e, matched) = 1
            /\ BagCardinality(matched) <= 15
            /\ BagToSet(matched) \subseteq union
            /\ Cardinality(union) <= 15 => BagToSet(matched) = union

\* C9 witness: the rules' matches hold more than 15 distinct strings, and a
\* string more than once
C9_Witness ==
    /\ ReturnedFull
    /\ Cardinality(UNION {BagToSet(report.rule_results[k].matches) : k \in 1..5}) > 15
    /\ \E k \in 1..5, l \in 1..5 :
           /\ k # l
           /\ BagToSet(report.rule_results[k].matches)
                  \cap BagToSet(report.rule_results[l].matches) # {}
    /\ BagCardinality(report.matched_skills) = 15

\* C10: with a non-empty jd_skills the facade returns score = the report's
\* percentage, matched = its matched_skills, missing = its missing_skills,
\* recommendations = its recommendations and rules_analysis = the report
\* evaluate_match returned for the same arguments
C10_FacadeWraps ==
    (pc = "done" /\ job_skills # <<>>) =>
        /\ facade_result.score = report.percentage
        /\ facade_result.matched = report.matched_skills
        /\ facade_result.missing = report.missing_skills
        /\ facade_result.recommendations = report.recommendations
        /\ facade_result.rules_analysis = report
        /\ DOMAIN facade_result =
               {"score", "matched", "missing", "rules_analysis", "recommendations"}

\* C10 witness: the facade returned a result with matched and missing skills
C10_Witness ==
    /\ pc = "done"
    /\ user_skills # <<>>
    /\ job_skills # <<>>
    /\ facade_result.missing # <<>>
    /\ facade_result.matched # EmptyBag
    /\ facade_result.score > 0

\* C11: score_from_skill_lists with an empty jd_skills returns exactly
\* {score: 0, matched: [], missing: []}, whatever resume_skills is, and
\* evaluate_match is never entered: no rule runs and no report is built
C11_EmptyJobList ==
    (caller = "facade" /\ job_skills = <<>>) =>
        /\ pc = "done"
        /\ facade_result = [score |-> 0, matched |-> EmptyBag, missing |-> <<>>]
        /\ DOMAIN facade_result = {"score", "matched", "missing"}
        /\ report = Nothing
        /\ i = 0
        /\ rule_results = <<>>

\* C11 witness: the facade returned for an empty jd_skills and a resume of
\* several skills
C11_Witness ==
    /\ pc = "done"
    /\ caller = "facade"
    /\ job_skills = <<>>
    /\ Len(user_skills) >= 2
    /\ facade_result.score = 0

\* evaluate_match has returned from the second of two calls with the same
\* arguments
ReturnedSame == pc = "returned" /\ first # Nothing /\ user_skills = first.user_skills

\* evaluate_match has returned from the second of two calls, made with one
\* more user skill, a job skill the first report has as missing
ReturnedMore == pc = "returned" /\ first # Nothing /\ user_skills # first.user_skills

\* C12: two calls with the same user_skills, job_skills and job_description
\* return the same percentage, total_score and missing_skills, and
\* matched_skills with the same strings, also when the rules' matches hold
\* more than 15 distinct strings
C12_Idempotent ==
    ReturnedSame =>
        /\ report.percentage = first.report.percentage
        /\ report.total_score = first.report.total_score
        /\ report.missing_skills = first.report.missing_skills
        /\ BagToSet(report.matched_skills) = BagToSet(first.report.matched_skills)

\* C13: for non-empty lists, a call with one more user skill, whose
\* normalized form is that of a job skill missing in the first report, returns
\* a percentage not below the first one
C13_Monotone ==
    (ReturnedMore /\ first.user_skills # <<>> /\ job_skills # <<>>) =>
        report.percentage >= first.report.percentage

\* C13 witness: the added skill carries a seniority keyword and changes the
\* score of the experience rule, in a spelling other than the job's, and the
\* first percentage was neither 0 nor at the cap
C13_Witness ==
    /\ ReturnedMore
    /\ first.user_skills # <<>>
    /\ user_skills[Len(user_skills)] = "Junior Dev "
    /\ \E k \in DOMAIN job_skills : job_skills[k] = "junior dev"
    /\ first.report.rule_results[5].score # report.rule_results[5].score
    /\ first.report.percentage \in 1..99
    /\ report.percentage < 100

\* C13 witness of the levels: the added skill lifts the user's level from
\* junior to mid while the job's level is senior
C13_WitnessLevels ==
    /\ ReturnedMore
    /\ ExtractExperienceLevel(first.user_skills) = "junior"
    /\ ExtractExperienceLevel(user_skills) = "mid"
    /\ ExtractExperienceLevel(job_skills) = "senior"

\* C14: from its entry to its return a call of evaluate_match changes none
\* of its arguments: user_skills, job_skills and the caller's user_context
\* keep their contents, whether user_context is None, empty or not empty
C14_ArgumentsUnchanged ==
    [][(pc \in {"enter", "loop"}) =>
           (user_skills' = user_skills /\ job_skills' = job_skills
            /\ user_context' = user_context)]_vars

\* the reports a call of evaluate_match(u, j) returns when it runs alone and
\* every rule returns
AloneReports(u, j) ==
    IF u = <<>> \/ j = <<>> THEN {EmptyReport(j)}
    ELSE LET results == [k \in 1..Len(RuleNames) |-> RuleResult(k, Evaluate(k, u, j))]
             matches == results[1].matches (+) results[2].matches
                            (+) results[3].matches (+) results[4].matches
                            (+) results[5].matches
         IN  {FullReport(u, j, results, SumScores(results), matched) :
                 matched \in DedupTake(matches, 15)}

\* each of two interleaved calls returns a report it returns when run alone
ReportsAsAlone ==
    /\ pc = "returned" => report \in AloneReports(user_skills, job_skills)
    /\ other.pc = "returned" =>
           other.report \in AloneReports(other.user_skills, other.job_skills)

\* C15: of two calls of evaluate_match interleaved on one engine with no
\* lock, each returns a report it returns when run alone, and neither reads
\* or changes what the other wrote: while a call runs, the job_description
\* of its context is the one it put there
C15_CallsIndependent ==
    /\ ReportsAsAlone
    /\ pc = "loop" => <<"job_description", job_description>> \in context
    /\ other.pc = "loop" =>
           <<"job_description", other.job_description>> \in OtherContext

\* the four percentage-tier messages
TierMessages ==
    {"Excellent match! You have most required skills.",
     "Good match! Focus on closing key skill gaps.",
     "Moderate match. Significant skill development needed.",
     "Low match. Consider building foundational skills first."}

\* C16: in a report of two non-empty lists the first recommendation is the
\* tier message of the percentage: excellent from 80, good from 60 to 79,
\* moderate from 40 to 59, low under 40; no later recommendation is a tier
\* message
C16_TierMessage ==
    ReturnedFull =>
        LET recs == report.recommendations
            p == report.percentage
        IN  /\ Len(recs) >= 1
            /\ p >= 80 => recs[1] = "Excellent match! You have most required skills."
            /\ (p >= 60 /\ p < 80) =>
                   recs[1] = "Good match! Focus on closing key skill gaps."
            /\ (p >= 40 /\ p < 60) =>
                   recs[1] = "Moderate match. Significant skill development needed."
            /\ p < 40 =>
                   recs[1] = "Low match. Consider building foundational skills first."
            /\ \A k \in 2..Len(recs) : recs[k] \notin TierMessages

\* C16 witness: a report with percentage exactly 80, the lowest of the
\* excellent tier, and later recommendations
C16_Witness ==
    /\ ReturnedFull
    /\ report.percentage = 80
    /\ Len(report.recommendations) >= 2

\* C16 witnesses of the other tiers
C16_WitnessGood == ReturnedFull /\ report.percentage \in 60..79

C16_WitnessModerate == ReturnedFull /\ report.percentage \in 40..59

C16_WitnessLow == ReturnedFull /\ report.percentage \in 0..39

\* the positions of a list that hold the line
PositionsOf(line, list) == {k \in DOMAIN list : list[k] = line}

\* C17: after the tier message the recommendations hold the technical-skills
\* line once if the Technical Skills entry has a score under 3 and not at all
\* otherwise, the experience-level line once if the Experience Level entry
\* has a score under 2 and not at all otherwise, the technical line first
C17_AdvisoryLines ==
    ReturnedFull =>
        LET recs == report.recommendations
            technical ==
                PositionsOf("Focus on building technical skills for better job match.", recs)
            experience ==
                PositionsOf("Consider roles matching your experience level.", recs)
            low_technical == report.rule_results[2].score < 30
            low_experience == report.rule_results[5].score < 20
        IN  /\ report.rule_results[2].rule_name = "Technical Skills"
            /\ report.rule_results[5].rule_name = "Experience Level"
            /\ technical = IF low_technical THEN {2} ELSE {}
            /\ experience =
                   IF ~low_experience THEN {}
                   ELSE IF low_technical THEN {3} ELSE {2}

\* C17 witness: one technical match, score 2.5, still brings the technical
\* line, while the experience rule scored at least 2 and brings none
C17_Witness ==
    /\ ReturnedFull
    /\ raised = NoneRaised
    /\ report.rule_results[2].score = 25
    /\ report.rule_results[5].score >= 20

\* C17 witness of the other sides: the experience line without the technical
\* line
C17_WitnessExperience ==
    /\ ReturnedFull
    /\ raised = NoneRaised
    /\ report.rule_results[2].score >= 30
    /\ report.rule_results[5].score < 20
    /\ Len(report.recommendations) = 3

C17_WitnessNeither ==
    /\ ReturnedFull
    /\ report.rule_results[2].score >= 30
    /\ report.rule_results[5].score >= 20
    /\ raised = NoneRaised

\* C18 witness of the other side: nothing is missing and no line is added
C18_WitnessNone ==
    /\ ReturnedFull
    /\ report.missing_skills = <<>>
    /\ Len(report.recommendations) = 1

\* C19: the Exact Match entry has as matches the lower-cased, trimmed
\* strings that occur in both lists, each once, and as score 3.0 times their
\* number
C19_ExactMatch ==
    (ReturnedFull /\ 1 \notin DOMAIN raised) =>
        LET common == NormalizedSet(user_skills) \cap NormalizedSet(job_skills)
            entry == report.rule_results[1]
        IN  /\ BagToSet(entry.matches) = common
            /\ \A e \in common : CopiesIn(e, entry.matches) = 1
            /\ entry.score = 30 * Cardinality(common)

\* C19 witness: both lists repeat one skill in several spellings, and the
\* entry has the one match
C19_Witness ==
    /\ ReturnedFull
    /\ 1 \notin DOMAIN raised
    /\ Len(user_skills) > 3
    /\ Len(job_skills) > 3
    /\ Cardinality({user_skills[k] : k \in DOMAIN user_skills}) > 1
    /\ report.rule_results[1].matches = SetToBag({"python"})
    /\ report.rule_results[1].score = 30

\* the strings that hold one of the keywords
Holding(keywords, strings) ==
    {x \in strings :
        \E kw \in keywords, k \in 1..Len(x) :
            k + Len(kw) - 1 <= Len(x) /\ SubSeq(x, k, k + Len(kw) - 1) = kw}

\* C20: the Technical Skills entry scores 2.5, and the Soft Skills entry
\* 1.5, for every distinct normalized string that is in both lists and holds
\* a keyword of the rule's vocabulary; a string holding none adds nothing
C20_KeywordRules ==
    ReturnedFull =>
        LET common == NormalizedSet(user_skills) \cap NormalizedSet(job_skills)
        IN  /\ 2 \notin DOMAIN raised =>
                   report.rule_results[2].score
                       = 25 * Cardinality(Holding(technical_keywords, common))
            /\ 3 \notin DOMAIN raised =>
                   report.rule_results[3].score
                       = 15 * Cardinality(Holding(soft_skill_keywords, common))

\* C20 witness: the one common skill holds a soft-skill keyword and no
\* technical keyword
C20_Witness ==
    /\ ReturnedFull
    /\ raised = NoneRaised
    /\ report.rule_results[1].score = 30
    /\ report.rule_results[2].score = 0
    /\ report.rule_results[3].score = 15

\* C20 witness of the technical rule: two common skills hold technical
\* keywords
C20_WitnessTechnical ==
    /\ ReturnedFull
    /\ raised = NoneRaised
    /\ report.rule_results[2].score = 50
    /\ report.rule_results[3].score = 0

\* the string x holds one of the keywords
Holds(keywords, x) == Holding(keywords, {x}) # {}

\* the related-keyword check: x holds a base skill of the map and y one of
\* its related keywords
PassesMap(x, y) ==
    \E b \in DOMAIN similarity_map :
        Holds({similarity_key[b]}, x) /\ Holds(similarity_map[b], y)

\* the abbreviation check: x holds the short form and y the full form
PassesAbbreviation(x, y) ==
    \E p \in common_matches : Holds({p[1]}, x) /\ Holds({p[2]}, y)

\* the normalized strings x and y pass at least one of the three checks
PassesCheck(x, y) ==
    \/ PassesMap(x, y) \/ PassesMap(y, x)
    \/ (Len(x) >= 4 /\ Len(y) >= 4 /\ \A k \in 1..4 : SubSeq(x, k, k) = SubSeq(y, k, k))
    \/ PassesAbbreviation(x, y) \/ PassesAbbreviation(y, x)

\* the pairs of normalized strings of the inputs that pass a check, as an
\* enumerated set
Passing ==
    {p : p \in {q \in NormalizedSkills \X NormalizedSkills : PassesCheck(q[1], q[2])}}

C21_WitnessTwice ==
    /\ ReturnedFull
    /\ user_skills = <<"js", "js">>
    /\ report.rule_results[4].score = 36
    /\ CopiesIn("js ~= javascript", report.rule_results[4].matches) = 2

\* C21 witness of the directions: the abbreviation is the job's skill
C21_WitnessReverse ==
    /\ ReturnedFull
    /\ user_skills = <<"JavaScript">>
    /\ report.rule_results[4].matches = SetToBag({"JavaScript ~= js"})

\* the seniority label of a list: the first level, senior before mid before
\* junior, of which some skill of the list, lower-cased, holds a keyword
Label(skills) ==
    LET lowered == {Lower(skills[k]) : k \in DOMAIN skills}
    IN  IF Holding(experience_keywords.senior, lowered) # {} THEN "senior"
        ELSE IF Holding(experience_keywords.mid, lowered) # {} THEN "mid"
        ELSE IF Holding(experience_keywords.junior, lowered) # {} THEN "junior"
        ELSE "none"

\* the score, in tenths, of a pair of seniority labels
LabelScore(user, job) ==
    IF user = "none" \/ job = "none" THEN 0
    ELSE IF user = job THEN 60
    ELSE IF <<user, job>> \in {<<"senior", "mid">>, <<"mid", "junior">>} THEN 40
    ELSE 10

\* C22: the Experience Level entry scores 6.0 when the labels of the two lists
\* are equal, 4.0 for user senior with job mid and for user mid with job
\* junior, 1.0 for every other pair of labels, and 0 with the explanation that
\* no indicators were found when a list has no label
C22_ExperienceScore ==
    (ReturnedFull /\ 5 \notin DOMAIN raised) =>
        LET user == Label(user_skills)
            job == Label(job_skills)
            entry == report.rule_results[5]
        IN  /\ entry.score = LabelScore(user, job)
            /\ (user = "none" \/ job = "none") =>
                   entry.explanation = "No clear experience level indicators found"
            /\ (user # "none" /\ job # "none") =>
                   entry.explanation # "No clear experience level indicators found"

\* the scores of the Experience Level entry for a pair of labels
ScoredAs(user, job, score) ==
    /\ ReturnedFull
    /\ Label(user_skills) = user
    /\ Label(job_skills) = job
    /\ report.rule_results[5].score = score

\* C22 witness: a senior user against a junior job scores 1.0
C22_Witness == ScoredAs("senior", "junior", 10)

\* C22 witness of the other pairs of labels
C22_WitnessJuniorSenior == ScoredAs("junior", "senior", 10)

C22_WitnessSeniorMid == ScoredAs("senior", "mid", 40)

C22_WitnessMidJunior == ScoredAs("mid", "junior", 40)

C22_WitnessMidSenior == ScoredAs("mid", "senior", 10)

C22_WitnessEqual == ScoredAs("mid", "mid", 60)

C22_WitnessNoLabel ==
    /\ ScoredAs("senior", "none", 0)
    /\ report.rule_results[5].explanation = "No clear experience level indicators found"

\* the label _extract_experience_level gives a list, none when it gives None
Level(skills) ==
    LET level == ExtractExperienceLevel(skills)
    IN  IF level = None THEN "none" ELSE level

\* the skills of a list in the reverse order
Reversed(skills) == [k \in DOMAIN skills |-> skills[Len(skills) + 1 - k]]

\* the explanation of the Experience Level entry for two labels
LabelExplanation(user, job) ==
    IF user = "none" \/ job = "none" THEN "No clear experience level indicators found"
    ELSE IF user = job THEN "Experience level match: " \o user
    ELSE IF LabelScore(user, job) = 40
         THEN "Experience level compatible: " \o user \o " > " \o job
         ELSE "Experience level mismatch: " \o user \o " vs " \o job

\* C23: the label of a skill list is senior when a senior keyword occurs in
\* its lower-cased text, otherwise mid when a mid keyword occurs, otherwise
\* junior when a junior keyword occurs, otherwise none; it is the same for
\* every order of the skills, and a list with a senior and a junior keyword
\* is labelled senior
C23_SeniorityLabel ==
    (ReturnedFull /\ 5 \notin DOMAIN raised) =>
        /\ Level(user_skills) = Label(user_skills)
        /\ Level(job_skills) = Label(job_skills)
        /\ report.rule_results[5].explanation
               = LabelExplanation(Label(user_skills), Label(job_skills))
        /\ \A skills \in {user_skills, job_skills} :
               Reversed(skills) \in SkillLists => Level(Reversed(skills)) = Level(skills)
        /\ \A skills \in {user_skills, job_skills} :
               (/\ Holding(experience_keywords.senior, {Lower(skills[k]) : k \in DOMAIN skills}) # {}
                /\ Holding(experience_keywords.junior, {Lower(skills[k]) : k \in DOMAIN skills}) # {})
                   => Level(skills) = "senior"

\* C23 witness: the junior skill comes first, the senior skill second, the
\* list is labelled senior, as is the list in the other order
C23_Witness ==
    /\ ReturnedFull
    /\ user_skills = <<"junior dev", "senior dev">>
    /\ Reversed(user_skills) = <<"senior dev", "junior dev">>
    /\ Level(Reversed(user_skills)) = "senior"
    /\ Level(user_skills) = "senior"
    /\ Label(job_skills) = "junior"
    /\ report.rule_results[5].explanation = "Experience level mismatch: senior vs junior"

\* C23 witness of the middle level: mid before junior, whatever the order
C23_WitnessMid ==
    /\ ReturnedFull
    /\ user_skills = <<"junior dev", "mid-level dev">>
    /\ Level(user_skills) = "mid"

\* C23 witness of a keyword in upper case and of a list without keywords
C23_WitnessNone ==
    /\ ReturnedFull
    /\ user_skills = <<"junior dev", " SENIOR dev">>
    /\ Level(user_skills) = "senior"
    /\ Level(job_skills) = "junior"

\* C23 witness of the other keywords: lead and trainee give senior,
\* experienced and associate give mid
C23_WitnessKeywords ==
    /\ ReturnedFull
    /\ user_skills = <<"trainee", "Team Lead">>
    /\ Level(user_skills) = "senior"
    /\ Level(job_skills) = "mid"
    /\ report.rule_results[5].explanation = "Experience level compatible: senior > mid"

\* C23 witness of a list without a keyword
C23_WitnessUnlabelled ==
    /\ ReturnedFull
    /\ user_skills = <<"sql">>
    /\ job_skills = JobBase
    /\ Level(user_skills) = "none"
    /\ Level(job_skills) = "none"

\* floor of the exact-match coverage: 100 times the distinct normalized job
\* skills the user has, over the distinct normalized job skills
Coverage(user, job) ==
    LET wanted == NormalizedSet(job)
    IN  (100 * Cardinality(wanted \cap NormalizedSet(user))) \div Cardinality(wanted)

\* C24: in every report for two non-empty lists the percentage is at least
\* the floor of the exact-match coverage, and a report with no missing skill
\* has percentage 100
C24_CoverageFloor ==
    ReturnedFull =>
        /\ report.percentage >= Coverage(user_skills, job_skills)
        /\ report.missing_skills = <<>> => report.percentage = 100

\* C24 witness: every rule raised, so nothing is added to the coverage of one
\* job skill in two
C24_Witness ==
    /\ ReturnedFull
    /\ DOMAIN raised = 1..Len(RuleNames)
    /\ Coverage(user_skills, job_skills) = 50
    /\ report.percentage = 50
    /\ report.missing_skills # <<>>

\* C24 witness of the floor: two job skills in three, every rule raised
C24_WitnessFloor ==
    /\ ReturnedFull
    /\ report.total_score = 0
    /\ Cardinality(NormalizedSet(job_skills)) = 3
    /\ report.percentage = 66

\* C24 witness of the bonus: the percentage is above a coverage below 100
C24_WitnessAbove ==
    /\ ReturnedFull
    /\ Coverage(user_skills, job_skills) \in 1..69
    /\ report.percentage > Coverage(user_skills, job_skills)

\* C24 witness of the full report: no skill is missing from a job list that
\* names one skill twice, every rule raised, and the percentage is 100
C24_WitnessComplete ==
    /\ ReturnedFull
    /\ DOMAIN raised = 1..Len(RuleNames)
    /\ report.missing_skills = <<>>
    /\ Len(job_skills) > Cardinality(NormalizedSet(job_skills))
    /\ report.percentage = 100

\* the rules Exact Match, Technical Skills and Soft Skills all returned
KeywordRulesReturned == ReturnedFull /\ DOMAIN raised \cap {1, 2, 3} = {}

\* C25: the matches of the Technical Skills entry and of the Soft Skills entry
\* are among the matches of the Exact Match entry, which are as many as the
\* common skills the percentage is based on; the Technical score is at most
\* 2.5/3 and the Soft score at most 1.5/3 of the Exact score; and the strings
\* the rules matched are those of the other three rules alone
C25_KeywordMatchesWithinExact ==
    KeywordRulesReturned =>
        LET exact == report.rule_results[1]
            technical == report.rule_results[2]
            soft == report.rule_results[3]
            common == NormalizedSet(user_skills) \cap NormalizedSet(job_skills)
        IN  /\ BagToSet(technical.matches) \subseteq BagToSet(exact.matches)
            /\ BagToSet(soft.matches) \subseteq BagToSet(exact.matches)
            /\ BagCardinality(exact.matches) = Cardinality(common)
            /\ BagToSet(exact.matches) = common
            /\ 30 * technical.score <= 25 * exact.score
            /\ 30 * soft.score <= 15 * exact.score
            /\ BagToSet(all_matches)
                   = BagToSet(exact.matches)
                         \cup BagToSet(report.rule_results[4].matches)
                         \cup BagToSet(report.rule_results[5].matches)
            /\ \A x \in BagToSet(report.matched_skills) :
                   \/ x \in BagToSet(exact.matches)
                   \/ x \in BagToSet(report.rule_results[4].matches)
                   \/ x \in BagToSet(report.rule_results[5].matches)

\* C25 witness: of three common skills one is technical, one a soft skill and
\* one neither
C25_Witness ==
    /\ KeywordRulesReturned
    /\ BagToSet(report.rule_results[1].matches) = {"python", "leadership", "cooking"}
    /\ BagToSet(report.rule_results[2].matches) = {"python"}
    /\ BagToSet(report.rule_results[3].matches) = {"leadership"}
    /\ report.rule_results[1].score = 90
    /\ report.rule_results[2].score = 25
    /\ report.rule_results[3].score = 15

\* C25 witness of the bounds met: every common skill is technical
C25_WitnessTechnical ==
    /\ KeywordRulesReturned
    /\ report.rule_results[1].score > 0
    /\ 30 * report.rule_results[2].score = 25 * report.rule_results[1].score

\* C25 witness of the bounds met: every common skill is a soft skill
C25_WitnessSoft ==
    /\ KeywordRulesReturned
    /\ report.rule_results[1].score > 0
    /\ 30 * report.rule_results[3].score = 15 * report.rule_results[1].score

\* C25 witness: the user has a technical skill the job does not name, and
\* it is no match
C25_WitnessOutside ==
    /\ KeywordRulesReturned
    /\ user_skills = <<"Python">>
    /\ job_skills = <<"leadership">>
    /\ report.rule_results[2].matches = EmptyBag

\* the strings a list of matched skills may hold for two lists: the
\* normalized skills of both, and a user skill and a job skill as written
\* around the similarity sign
SkillEntries(user, job) ==
    (NormalizedSet(user) \cap NormalizedSet(job))
    \cup {p[1] \o " ~= " \o p[2] :
              p \in {user[a] : a \in DOMAIN user} \X {job[b] : b \in DOMAIN job}}

\* C26: every entry of matched_skills, and of the matched field the facade
\* returns, is a normalized skill of both lists or a user skill and a job
\* skill around the similarity sign, never the explanation text of a rule
C26_MatchedSkillsAreSkills ==
    /\ ReturnedFull =>
           BagToSet(report.matched_skills) \subseteq SkillEntries(user_skills, job_skills)
    /\ (pc = "done" /\ job_skills # <<>>) =>
           BagToSet(facade_result.matched) \subseteq SkillEntries(user_skills, job_skills)

====
